---- MODULE Spec2Model ----
(***************************************************************************)
(* A model of encode.py, the QOI image encoder: one call of encode(path)   *)
(* on one file.  The output file is the byte sequence out; a pixel list is *)
(* kept run-length compressed as a sequence of <<rgb, n>> segments (n      *)
(* copies of rgb) and read one pixel at a time by PixelAt.  Spec is one    *)
(* call; SpecCalls is the loop over sys.argv, one call after the other,    *)
(* with calls the number of calls begun and encoded the <<file, output>>   *)
(* pairs of the calls that wrote their trailer.                            *)
(***************************************************************************)
EXTENDS Integers, Sequences, FiniteSets, TLC

VARIABLES file, pc, width, height, pixVals, index, out, last, run_counter,
          current, i, calls, encoded

vars == <<file, pc, width, height, pixVals, index, out, last, run_counter,
          current, i, calls, encoded>>

(* ------------------------------ bounds --------------------------------- *)

\* longest image of the family of short images (one pixel per segment)
MaxLen == 3
\* most segments of an image of the family of long runs
MaxRunSegs == 2
\* most segments of an image of the family of zero, hash-0 and hash-1 pixels
MaxLowSegs == 3
\* most calls of encode in one run of the program
MaxCalls == 3

(* ----------------------------- constants ------------------------------- *)

\* encode.py:84, the longest run one QOI_OP_RUN byte carries
RunCap == 62
\* encode.py:31, the number of slots of the colour index
IndexSize == 64

(* --------------------------- pixel lists ------------------------------- *)

Zero == <<0, 0, 0>>
Grey == <<10, 10, 10>>
White == <<255, 255, 255>>
\* index_hash = 0 and index_hash = 1
Low0 == <<25, 0, 0>>
Low1 == <<4, 0, 0>>

Palette == {Zero, Grey, <<11, 8, 11>>, <<12, 8, 11>>, White, Low0, Low1}

RECURSIVE PixCount(_)
PixCount(segs) ==
    IF segs = <<>> THEN 0 ELSE segs[1][2] + PixCount(Tail(segs))

RECURSIVE PixelAt(_, _)
PixelAt(segs, k) ==
    IF k <= segs[1][2] THEN segs[1][1]
    ELSE PixelAt(Tail(segs), k - segs[1][2])

SeqsUpTo(S, n) == UNION {[1..m -> S] : m \in 0..n}

ShortImages == SeqsUpTo(Palette \X {1}, MaxLen)
RunImages == SeqsUpTo({Zero, Grey} \X {1, RunCap + 2, 2 * RunCap + 4}, MaxRunSegs)
LowImages == SeqsUpTo({Zero, Low0, Low1} \X {1, 8}, MaxLowSegs)

PixelLists == ShortImages \cup RunImages \cup LowImages

\* the sizes an image of n pixels can have (a sample of the widths)
Dims(n) ==
    IF n = 0 THEN {<<0, 0>>, <<0, 1>>, <<1, 0>>}
    ELSE {<<w, n \div w>> : w \in {d \in {1, 2, n} : n % d = 0}}

\* what is at path: no file, a file PIL cannot read, or an RGB image
Files ==
    {[kind |-> k, width |-> 0, height |-> 0, pixels |-> <<>>] :
        k \in {"missing", "unreadable"}}
    \cup
    UNION {{[kind |-> "image", width |-> d[1], height |-> d[2], pixels |-> p] :
             d \in Dims(PixCount(p))} : p \in PixelLists}

(* ----------------------------- helpers --------------------------------- *)

RECURSIVE BitOr(_, _)
BitOr(a, b) ==
    IF a = 0 THEN b
    ELSE IF b = 0 THEN a
    ELSE (IF a % 2 = 1 \/ b % 2 = 1 THEN 1 ELSE 0)
         + 2 * BitOr(a \div 2, b \div 2)

index_hash(rgb) == (rgb[1] * 3 + rgb[2] * 5 + rgb[3] * 7 + 255 * 11) % 64

\* a slot of the colour index: the list [0,0,0] it starts with, or a pixel
\* tuple stored later
ZeroSlot == [kind |-> "list", rgb |-> Zero]
TupleSlot(rgb) == [kind |-> "tuple", rgb |-> rgb]
NewIndex == [h \in 0..(IndexSize - 1) |-> ZeroSlot]

\* rgb == index[index_pos], rgb a tuple (a tuple never equals a list)
PyEq(rgb, slot) == slot.kind = "tuple" /\ slot.rgb = rgb

\* the bytes in little-endian order
ToBytes4_little(n) ==
    <<n % 256, (n \div 256) % 256, (n \div 65536) % 256, (n \div 16777216) % 256>>

\* int.to_bytes(4, byteorder='big', signed=False)
ToBytes4(n) ==
    <<(n \div 16777216) % 256, (n \div 65536) % 256, (n \div 256) % 256, n % 256>>

Magic == <<113, 111, 105, 102>>
Header(w, h) == Magic \o ToBytes4(w) \o ToBytes4(h) \o <<3>> \o <<0>>
\* the closing 0x01 byte left out
Trailer_zeros == <<0, 0, 0, 0, 0, 0, 0, 0>>
Trailer == <<0, 0, 0, 0, 0, 0, 0, 1>>

(* --------------------------- the pixel loop ---------------------------- *)

NPixels == PixCount(pixVals)
InLoop == pc = "loop" /\ i < NPixels
rgb == PixelAt(pixVals, i + 1)

\* the run test off by one: a run may grow to 63
RunContinues_le(p) ==
    last[1] = p[1] /\ last[2] = p[2] /\ last[3] = p[3] /\ run_counter <= RunCap

\* the run test with a bound no counter is below: no pixel continues a run
RunContinues_never(p) ==
    last[1] = p[1] /\ last[2] = p[2] /\ last[3] = p[3] /\ run_counter < 0

RunContinues(p) ==
    last[1] = p[1] /\ last[2] = p[2] /\ last[3] = p[3] /\ run_counter < RunCap

\* the bias of the run length forgotten
RunByte_nobias(n) == BitOr(192, n)
RunByte(n) == BitOr(192, n - 1)

\* the run written nowhere
Flushed_none == out
\* the output after "Write runlength if pixel repetition ends"
Flushed == IF run_counter > 0 THEN Append(out, RunByte(run_counter)) ELSE out

IndexHit(p) == PyEq(p, index[index_hash(p)])

\* the difference modulo 256, read as a signed 8-bit value
Delta_wrapped(a, b) == ((a - b + 128) % 256) - 128
Delta(a, b) == a - b

\* the upper end of the range off by one
DiffFits_wide(dr, dg, db) ==
    /\ dr < 3 /\ dr > -3
    /\ dg < 3 /\ dg > -3
    /\ db < 3 /\ db > -3

DiffFits(dr, dg, db) ==
    /\ dr < 2 /\ dr > -3
    /\ dg < 2 /\ dg > -3
    /\ db < 2 /\ db > -3

DiffByte(dr, dg, db) ==
    BitOr(BitOr(BitOr(64, (dr + 2) * 16), (dg + 2) * 4), db + 2)

\* the tag of QOI_OP_RGBA in place of the tag of QOI_OP_RGB
LiteralBytes_rgba(p) == <<255, p[1], p[2], p[3]>>
LiteralBytes(p) == <<254, p[1], p[2], p[3]>>

(* ------------------------------ actions -------------------------------- *)

Init ==
    /\ file \in Files
    /\ pc = "start"
    /\ width = 0
    /\ height = 0
    /\ pixVals = <<>>
    /\ index = NewIndex
    /\ out = <<>>
    /\ last = Zero
    /\ run_counter = 0
    /\ current = 0
    /\ i = 0
    /\ calls = 1
    /\ encoded = <<>>

FileMissing ==
    /\ pc = "start"
    /\ file.kind = "missing"
    /\ index' = NewIndex
    /\ pc' = "returned"
    /\ UNCHANGED <<file, width, height, pixVals, out, last, run_counter, current, i, calls, encoded>>

\* Image.open raises IOError; the handler reads errno.EACCESS, which the
\* errno module does not have, so it raises AttributeError in turn
LoadError ==
    /\ pc = "start"
    /\ file.kind = "unreadable"
    /\ index' = NewIndex
    /\ pc' = "raised"
    /\ UNCHANGED <<file, width, height, pixVals, out, last, run_counter, current, i, calls, encoded>>

\* the colour index kept from the call before (an index made outside encode)
LoadImage_keepindex ==
    /\ pc = "start"
    /\ file.kind = "image"
    /\ pixVals' = file.pixels
    /\ height' = file.height
    /\ width' = file.width
    /\ pc' = "header"
    /\ UNCHANGED <<file, index, out, last, run_counter, current, i, calls, encoded>>

LoadImage ==
    /\ pc = "start"
    /\ file.kind = "image"
    /\ index' = NewIndex
    /\ pixVals' = file.pixels
    /\ height' = file.height
    /\ width' = file.width
    /\ pc' = "header"
    /\ UNCHANGED <<file, out, last, run_counter, current, i, calls, encoded>>

WriteHeader ==
    /\ pc = "header"
    /\ out' = Header(width, height)
    /\ last' = Zero
    /\ run_counter' = 0
    /\ current' = 0
    /\ i' = 0
    /\ pc' = "loop"
    /\ UNCHANGED <<file, width, height, pixVals, index, calls, encoded>>

OpRun ==
    /\ InLoop
    /\ RunContinues(rgb)
    /\ run_counter' = run_counter + 1
    /\ current' = current + 1
    /\ i' = i + 1
    /\ UNCHANGED <<file, pc, width, height, pixVals, index, out, last, calls, encoded>>

OpIndex ==
    /\ InLoop
    /\ ~RunContinues(rgb)
    /\ IndexHit(rgb)
    /\ out' = Append(Flushed, index_hash(rgb))
    /\ run_counter' = 0
    /\ last' = rgb
    /\ current' = current + 1
    /\ i' = i + 1
    /\ UNCHANGED <<file, pc, width, height, pixVals, index, calls, encoded>>

\* the small-delta branch with the store of line 99 lost
OpDiff_nostore ==
    /\ InLoop
    /\ ~RunContinues(rgb)
    /\ ~IndexHit(rgb)
    /\ LET dr == Delta(rgb[1], last[1])
           dg == Delta(rgb[2], last[2])
           db == Delta(rgb[3], last[3])
       IN /\ DiffFits(dr, dg, db)
          /\ out' = Append(Flushed, DiffByte(dr, dg, db))
    /\ run_counter' = 0
    /\ last' = rgb
    /\ current' = current + 1
    /\ i' = i + 1
    /\ UNCHANGED <<file, pc, width, height, pixVals, index, calls, encoded>>

OpDiff ==
    /\ InLoop
    /\ ~RunContinues(rgb)
    /\ ~IndexHit(rgb)
    /\ LET dr == Delta(rgb[1], last[1])
           dg == Delta(rgb[2], last[2])
           db == Delta(rgb[3], last[3])
       IN /\ DiffFits(dr, dg, db)
          /\ out' = Append(Flushed, DiffByte(dr, dg, db))
    /\ index' = [index EXCEPT ![index_hash(rgb)] = TupleSlot(rgb)]
    /\ run_counter' = 0
    /\ last' = rgb
    /\ current' = current + 1
    /\ i' = i + 1
    /\ UNCHANGED <<file, pc, width, height, pixVals, calls, encoded>>

\* the literal branch with the store of line 99 lost
OpRGB_nostore ==
    /\ InLoop
    /\ ~RunContinues(rgb)
    /\ ~IndexHit(rgb)
    /\ LET dr == Delta(rgb[1], last[1])
           dg == Delta(rgb[2], last[2])
           db == Delta(rgb[3], last[3])
       IN ~DiffFits(dr, dg, db)
    /\ out' = Flushed \o LiteralBytes(rgb)
    /\ run_counter' = 0
    /\ last' = rgb
    /\ current' = current + 1
    /\ i' = i + 1
    /\ UNCHANGED <<file, pc, width, height, pixVals, index, calls, encoded>>

OpRGB ==
    /\ InLoop
    /\ ~RunContinues(rgb)
    /\ ~IndexHit(rgb)
    /\ LET dr == Delta(rgb[1], last[1])
           dg == Delta(rgb[2], last[2])
           db == Delta(rgb[3], last[3])
       IN ~DiffFits(dr, dg, db)
    /\ out' = Flushed \o LiteralBytes(rgb)
    /\ index' = [index EXCEPT ![index_hash(rgb)] = TupleSlot(rgb)]
    /\ run_counter' = 0
    /\ last' = rgb
    /\ current' = current + 1
    /\ i' = i + 1
    /\ UNCHANGED <<file, pc, width, height, pixVals, calls, encoded>>

WriteTrailer ==
    /\ pc = "loop"
    /\ i = NPixels
    /\ out' = out \o Trailer
    /\ pc' = "done"
    /\ UNCHANGED <<file, width, height, pixVals, index, last, run_counter, current, i, calls, encoded>>

Next ==
    \/ FileMissing
    \/ LoadError
    \/ LoadImage
    \/ WriteHeader
    \/ OpRun
    \/ OpIndex
    \/ OpDiff
    \/ OpRGB
    \/ WriteTrailer

Spec == Init /\ [][Next]_vars

(* ------------------------ the loop over sys.argv ----------------------- *)

\* the files of the runs of several calls: the short images of at most
\* three pixels out of (11,8,11) and (12,8,11), one row high
CallFiles ==
    {f \in Files :
        \/ f.kind # "image"
        \/ /\ Len(f.pixels) <= 3
           /\ \A k \in 1..Len(f.pixels) : f.pixels[k] \in {<<11, 8, 11>>, <<12, 8, 11>>} \X {1}
           /\ f.width = Len(f.pixels)
           /\ f.height <= 1}

InitCalls == Init /\ file \in CallFiles

\* encode has returned and the loop calls it on the next path; the locals of
\* the call before are what the next call finds until it assigns them
NextCall ==
    /\ pc \in {"done", "returned"}
    /\ calls < MaxCalls
    /\ \E f \in CallFiles : file' = f
    /\ pc' = "start"
    /\ calls' = calls + 1
    /\ encoded' = IF pc = "done" THEN Append(encoded, <<file, out>>) ELSE encoded
    /\ UNCHANGED <<width, height, pixVals, index, out, last, run_counter, current, i>>

NextCalls ==
    \/ Next
    \/ NextCall

SpecCalls == InitCalls /\ [][NextCalls]_vars

(* ------------------- definitions used by the properties ---------------- *)

\* the pixel list written out in full
RECURSIVE Expand(_)
Expand(segs) ==
    IF segs = <<>> THEN <<>>
    ELSE [k \in 1..segs[1][2] |-> segs[1][1]] \o Expand(Tail(segs))

\* the opcode bytes of out: after the header, before the trailer once written
OpEnd == IF pc = "done" THEN Len(out) - 8 ELSE Len(out)
OpStream == IF OpEnd > 14 THEN SubSeq(out, 15, OpEnd) ELSE <<>>

\* the output once the run pending before a non-continuing pixel is written
AfterFlush == IF run_counter > 0 THEN Append(out, 191 + run_counter) ELSE out

\* a decoder of the opcode stream: previous pixel prev, 64 slots table, reading
\* bytes from position k; it stores every pixel it decodes from a small-delta
\* or literal opcode and reads an index opcode from its slot
RECURSIVE Decode(_, _, _, _)
Decode(bytes, k, prev, table) ==
    IF k > Len(bytes) THEN <<>>
    ELSE LET b == bytes[k] IN
      IF b < 64 THEN
          <<table[b]>> \o Decode(bytes, k + 1, table[b], table)
      ELSE IF b < 128 THEN
          LET px == <<(prev[1] + ((b \div 16) % 4) - 2) % 256,
                      (prev[2] + ((b \div 4) % 4) - 2) % 256,
                      (prev[3] + (b % 4) - 2) % 256>>
          IN <<px>> \o Decode(bytes, k + 1, px,
                              [table EXCEPT ![index_hash(px)] = px])
      ELSE IF b >= 192 /\ b <= 253 THEN
          [j \in 1..(b - 191) |-> prev] \o Decode(bytes, k + 1, prev, table)
      ELSE IF b = 254 /\ k + 3 <= Len(bytes) THEN
          LET px == <<bytes[k + 1], bytes[k + 2], bytes[k + 3]>>
          IN <<px>> \o Decode(bytes, k + 4, px,
                              [table EXCEPT ![index_hash(px)] = px])
      ELSE <<>>

Decoded == Decode(OpStream, 1, Zero, [h \in 0..63 |-> Zero])

(* ------------------------------ properties ----------------------------- *)

\* C1: when the pixel list is exhausted with run_counter > 0, the byte
\* 192 | (run_counter - 1) of that residual run is in the output, right
\* before the 8-byte trailer.
C1_ResidualRunFlushed ==
    pc = "done" /\ run_counter > 0 =>
        /\ Len(out) > 22
        /\ out[Len(out) - 8] = 192 + (run_counter - 1)

\* C2: round trip: decoding the opcode stream of a finished encode gives the
\* pixel list back, same length and same values.
C2_RoundTrip == pc = "done" => Decoded = Expand(pixVals)

\* What does hold of the round trip: the decoded pixels, followed by
\* run_counter copies of last, are the pixels processed so far.
RoundTripButOpenRun ==
    pc \in {"loop", "done"} =>
        Decoded \o [j \in 1..run_counter |-> last] = SubSeq(Expand(pixVals), 1, i)

\* C3 (as claimed): a pixel that repeats the pixel before it is encoded by run
\* opcodes only: processing it appends nothing, or one run opcode byte.
C3_RunsOnly ==
    [][InLoop /\ i >= 1 /\ rgb = PixelAt(pixVals, i) =>
          \/ out' = out
          \/ /\ Len(out') = Len(out) + 1
             /\ out'[Len(out')] \in 192..253]_vars

\* C3 (amended): a pixel that repeats the pixel before it appends nothing while
\* the run is below 62; at a run of 62 it appends the run opcode 253 (62
\* pixels) and then one single byte for the pixel itself: its index opcode,
\* or the zero small-delta 106 for a (0,0,0) that was never stored.  No
\* literal is written for it.
C3_RunCapThenOneByte ==
    [][InLoop /\ i >= 1 /\ rgb = PixelAt(pixVals, i) =>
          \/ run_counter < 62 /\ out' = out /\ run_counter' = run_counter + 1
          \/ /\ run_counter = 62
             /\ run_counter' = 0
             /\ \E b \in {index_hash(rgb), 106} : out' = out \o <<253, b>>]_vars

\* 128 grey pixels: literal, run of 62, index, run of 62, index, open run of 1
C3_Witness ==
    /\ pc = "done"
    /\ pixVals = <<<<Grey, 128>>>>
    /\ OpStream = <<254, 10, 10, 10, 253, 11, 253, 11>>

\* C4: from the header on, the first 14 bytes of the output are 'qoif', the
\* width and the height as 4-byte big-endian unsigned numbers, 3 and 0; no
\* byte is written before them.
C4_HeaderExact ==
    /\ pc \in {"start", "header", "returned", "raised"} => out = <<>>
    /\ pc \in {"loop", "done"} =>
        /\ Len(out) >= 14
        /\ SubSeq(out, 1, 4) = <<113, 111, 105, 102>>
        /\ \A k \in 5..12 : out[k] \in 0..255
        /\ ((out[5] * 256 + out[6]) * 256 + out[7]) * 256 + out[8] = width
        /\ ((out[9] * 256 + out[10]) * 256 + out[11]) * 256 + out[12] = height
        /\ out[13] = 3
        /\ out[14] = 0

\* a 256 x 1 image: the width takes two bytes
C4_Witness ==
    /\ pc = "done"
    /\ width = 256
    /\ height = 1
    /\ SubSeq(out, 5, 12) = <<0, 0, 1, 0, 0, 0, 0, 1>>

EndsWithTrailer(bytes) ==
    /\ Len(bytes) >= 8
    /\ SubSeq(bytes, Len(bytes) - 7, Len(bytes)) = <<0, 0, 0, 0, 0, 0, 0, 1>>

\* C5: the finished output is the 14-byte header, the opcode stream and the
\* trailer 00 00 00 00 00 00 00 01; the trailer is written once, after every
\* pixel has been processed, and nothing is written after it.
C5_OutputStructure ==
    /\ pc = "done" =>
        /\ i = NPixels
        /\ current = NPixels
        /\ out = Header(width, height) \o OpStream \o <<0, 0, 0, 0, 0, 0, 0, 1>>
        /\ ~ EndsWithTrailer(Header(width, height) \o OpStream)
        /\ ~ ENABLED Next
    /\ pc # "done" => ~ EndsWithTrailer(out)

\* a finished three-pixel image
C5_Witness ==
    /\ pc = "done"
    /\ pixVals = <<<<Grey, 1>>, <<Low0, 1>>, <<Zero, 1>>>>
    /\ OpStream = <<254, 10, 10, 10, 254, 25, 0, 0, 254, 0, 0, 0>>

\* C6: the opcode stream, between the header and the trailer, never holds the
\* eight bytes 00 00 00 00 00 00 00 01 in a row.
C6_NoTrailerInOpcodes ==
    \A k \in 15..(OpEnd - 7) :
        SubSeq(out, k, k + 7) # <<0, 0, 0, 0, 0, 0, 0, 1>>

\* index opcode 0 right after the zero payload of a literal (0,0,0): four zero
\* bytes in a row in a stream long enough to hold the eight bytes
C6_Witness ==
    /\ pc = "done"
    /\ pixVals = <<<<Low0, 1>>, <<Zero, 1>>, <<Low0, 1>>>>
    /\ OpStream = <<254, 25, 0, 0, 254, 0, 0, 0, 0>>

\* C7: in a list A, B, A with B # A and index_hash(B) # index_hash(A), the
\* second A is written as the single byte index_hash(A); A may be (0,0,0).
C7_IndexReuse ==
    [][/\ InLoop
       /\ NPixels = 3
       /\ i = 2
       /\ PixelAt(pixVals, 1) = PixelAt(pixVals, 3)
       /\ PixelAt(pixVals, 2) # PixelAt(pixVals, 1)
       /\ index_hash(PixelAt(pixVals, 2)) # index_hash(PixelAt(pixVals, 1))
       => out' = AfterFlush \o <<index_hash(PixelAt(pixVals, 1))>>]_vars

\* What does hold of the index reuse: the same, for A other than (0,0,0).
IndexReuseNonZero ==
    [][/\ InLoop
       /\ NPixels = 3
       /\ i = 2
       /\ PixelAt(pixVals, 1) = PixelAt(pixVals, 3)
       /\ PixelAt(pixVals, 1) # <<0, 0, 0>>
       /\ PixelAt(pixVals, 2) # PixelAt(pixVals, 1)
       /\ index_hash(PixelAt(pixVals, 2)) # index_hash(PixelAt(pixVals, 1))
       => out' = AfterFlush \o <<index_hash(PixelAt(pixVals, 1))>>]_vars

\* C8: a pixel that differs from last and misses the index is written as the
\* one byte 64 | (dr+2)<<4 | (dg+2)<<2 | (db+2) exactly when dr, dg and db,
\* the differences to last, all lie in [-2, 1], and as the four bytes
\* 254, r, g, b otherwise.
C8_DiffBoundary ==
    [][InLoop /\ rgb # last /\ ~ IndexHit(rgb) =>
          LET dr == rgb[1] - last[1]
              dg == rgb[2] - last[2]
              db == rgb[3] - last[3]
          IN IF {dr, dg, db} \subseteq -2..1
             THEN out' = AfterFlush \o <<64 + (dr + 2) * 16 + (dg + 2) * 4 + (db + 2)>>
             ELSE out' = AfterFlush \o <<254, rgb[1], rgb[2], rgb[3]>>]_vars

\* (10,10,10) then (11,8,11): deltas +1, -2, +1, the small-delta byte 115
C8_Witness ==
    /\ pc = "done"
    /\ pixVals = <<<<Grey, 1>>, <<<<11, 8, 11>>, 1>>>>
    /\ OpStream = <<254, 10, 10, 10, 115>>

Wrap8(d) == ((d + 128) % 256) - 128

\* C9 (as claimed): the deltas are differences modulo 256 read as signed
\* values; a pixel that differs from last and misses the index is written as
\* the small-delta byte when the three wrapped deltas lie in [-2, 1].
C9_WrappedDeltas ==
    [][InLoop /\ rgb # last /\ ~ IndexHit(rgb) =>
          LET dr == Wrap8(rgb[1] - last[1])
              dg == Wrap8(rgb[2] - last[2])
              db == Wrap8(rgb[3] - last[3])
          IN {dr, dg, db} \subseteq -2..1 =>
               out' = AfterFlush \o <<64 + (dr + 2) * 16 + (dg + 2) * 4 + (db + 2)>>]_vars

\* C9 (amended): the deltas are plain integer differences, not wrapped: a
\* channel going from 255 to 0 has delta -255 and one going from 0 to 255 has
\* delta +255.  A pixel that misses the index and whose wrapped deltas lie in
\* [-2, 1] while a plain difference does not is written as a literal.
C9_PlainDeltas ==
    [][/\ InLoop /\ rgb # last /\ ~ IndexHit(rgb)
       /\ \A c \in 1..3 : Wrap8(rgb[c] - last[c]) \in -2..1
       /\ \E c \in 1..3 : rgb[c] - last[c] \notin -2..1
       => out' = AfterFlush \o <<254, rgb[1], rgb[2], rgb[3]>>]_vars

\* (255,255,255) then (0,0,0): wrapped deltas +1, plain deltas -255, a literal
C9_Witness ==
    /\ pc = "done"
    /\ pixVals = <<<<White, 1>>, <<Zero, 1>>>>
    /\ OpStream = <<254, 255, 255, 255, 254, 0, 0, 0>>

\* C10: with a width or a height of zero, or above 2^32 - 1, encode fails
\* before any byte, header included, is written.
C10_InvalidDimensions ==
    /\ file.kind = "image"
    /\ \/ file.width = 0 \/ file.width \div 65536 >= 65536
       \/ file.height = 0 \/ file.height \div 65536 >= 65536
    => out = <<>> /\ pc \notin {"loop", "done"}

\* C12 (as claimed): every pixel P gets exactly one of four treatments, in
\* this order: P = last and run_counter < 62: the counter grows and nothing is
\* written; else the slot of P holds the value P: the index byte; else the
\* small-delta byte; else the four literal bytes.
C12_StrictPriority ==
    [][InLoop =>
          LET h == index_hash(rgb)
              dr == rgb[1] - last[1]
              dg == rgb[2] - last[2]
              db == rgb[3] - last[3]
          IN IF rgb = last /\ run_counter < 62
             THEN run_counter' = run_counter + 1 /\ out' = out
             ELSE IF index[h].rgb = rgb
             THEN out' = AfterFlush \o <<h>>
             ELSE IF {dr, dg, db} \subseteq -2..1
             THEN out' = AfterFlush \o <<64 + (dr + 2) * 16 + (dg + 2) * 4 + (db + 2)>>
             ELSE out' = AfterFlush \o <<254, rgb[1], rgb[2], rgb[3]>>]_vars

\* What does hold of the priority: the same, with the index test met only by
\* a slot that a pixel was stored in.
PriorityOverStoredSlots ==
    [][InLoop =>
          LET h == index_hash(rgb)
              dr == rgb[1] - last[1]
              dg == rgb[2] - last[2]
              db == rgb[3] - last[3]
          IN IF rgb = last /\ run_counter < 62
             THEN run_counter' = run_counter + 1 /\ out' = out
             ELSE IF index[h].kind = "tuple" /\ index[h].rgb = rgb
             THEN out' = AfterFlush \o <<h>>
             ELSE IF {dr, dg, db} \subseteq -2..1
             THEN out' = AfterFlush \o <<64 + (dr + 2) * 16 + (dg + 2) * 4 + (db + 2)>>
             ELSE out' = AfterFlush \o <<254, rgb[1], rgb[2], rgb[3]>>]_vars

\* the last pixel of hash h among the first n pixels of segs, acc if none
RECURSIVE LastHashed(_, _, _, _)
LastHashed(segs, n, h, acc) ==
    IF n <= 0 \/ segs = <<>> THEN acc
    ELSE LastHashed(Tail(segs), n - segs[1][2], h,
                    IF index_hash(segs[1][1]) = h THEN segs[1][1] ELSE acc)

\* C13: after any number of processed pixels, every slot h holds the most
\* recently processed pixel of hash h, or (0,0,0) when no processed pixel has
\* that hash.
C13_TableInvariant ==
    pc \in {"loop", "done"} =>
        \A h \in 0..63 : index[h].rgb = LastHashed(pixVals, i, h, <<0, 0, 0>>)

\* (10,10,10) then (11,8,11), both of hash 11: the slot holds the later one
C13_Witness ==
    /\ pc = "loop"
    /\ i = 2
    /\ PixelAt(pixVals, 1) = Grey
    /\ PixelAt(pixVals, 2) = <<11, 8, 11>>
    /\ index[11].rgb = <<11, 8, 11>>

\* the bytes a step has appended to the output
Added == SubSeq(out', Len(out) + 1, Len(out'))

\* C14: run_counter is within 0..62 in every state, and every run opcode
\* written is 192 | (run_counter - 1), a byte within 192..253, never 254 or
\* 255.
C14_RunLengthRange ==
    /\ [](run_counter \in 0..62)
    /\ [][InLoop /\ run_counter > 0 /\ out' # out =>
             /\ Added[1] = 192 + (run_counter - 1)
             /\ Added[1] \in 192..253]_vars

\* a run of 62 written as the byte 253
C14_Witness ==
    /\ pc = "loop"
    /\ i = 2 * RunCap + 2
    /\ run_counter = 62
    /\ OpStream = <<254, 10, 10, 10, 253, 11>>

\* the values of the slots of the colour index
Slots(table) == [h \in 0..63 |-> table[h].rgb]

\* C15: a pixel P that misses the index overwrites slot index_hash(P) with P
\* and leaves the other 63 slots as they are, whether P is written as a
\* small-delta or as a literal; an index hit and a run continuation leave the
\* whole table as it is, and a run continuation leaves last and the output as
\* they are too.
C15_TableFrame ==
    [][InLoop =>
          LET h == index_hash(rgb) IN
          IF rgb = last /\ run_counter < 62
          THEN UNCHANGED <<index, last, out>>
          ELSE IF Slots(index)[h] = rgb
          THEN Slots(index') = Slots(index)
          ELSE Slots(index') = [Slots(index) EXCEPT ![h] = rgb]]_vars

\* (10,10,10) written as a literal and stored in slot 11, the one slot written
C15_Witness ==
    /\ pc = "loop"
    /\ i = 1
    /\ OpStream = <<254, 10, 10, 10>>
    /\ Slots(index) = [h \in 0..63 |-> IF h = 11 THEN Grey ELSE Zero]

\* C16: a never-written slot reads as (0,0,0): a pixel (0,0,0) that does not
\* continue a run, with slot 53 never written, is an index hit, written as
\* the single byte 53.
C16_ZeroSentinel ==
    [][/\ InLoop
       /\ rgb = <<0, 0, 0>>
       /\ ~ (last = <<0, 0, 0>> /\ run_counter < 62)
       /\ index[53] = ZeroSlot
       => out' = AfterFlush \o <<53>>]_vars

\* C17: when a pixel P does not continue a run while run_counter = n > 0, the
\* byte 192 | (n - 1) is appended first and the bytes of P's own opcode right
\* after it, and run_counter is 0 for P.
C17_FlushFirst ==
    [][/\ InLoop
       /\ run_counter > 0
       /\ ~ (rgb = last /\ run_counter < 62)
       => /\ Len(Added) \in {2, 5}
          /\ Added[1] = 192 + (run_counter - 1)
          /\ \/ Tail(Added) = <<index_hash(rgb)>>
             \/ Len(Added) = 2 /\ Added[2] \in 64..127
             \/ Tail(Added) = <<254, rgb[1], rgb[2], rgb[3]>>
          /\ run_counter' = 0]_vars

\* two (10,10,10) then (255,255,255): the run of one, then the literal
C17_Witness ==
    /\ pc = "loop"
    /\ i = 3
    /\ run_counter = 0
    /\ OpStream = <<254, 10, 10, 10, 192, 254, 255, 255, 255>>

\* the number of pixels the opcodes of bytes, from position k on, stand for
RECURSIVE Covered(_, _)
Covered(bytes, k) ==
    IF k > Len(bytes) THEN 0
    ELSE IF bytes[k] >= 192 /\ bytes[k] <= 253
         THEN (bytes[k] - 191) + Covered(bytes, k + 1)
    ELSE IF bytes[k] = 254 THEN 1 + Covered(bytes, k + 4)
    ELSE 1 + Covered(bytes, k + 1)

\* C18: after k processed pixels, the pixels the written opcodes stand for
\* (n for a run opcode of n, 1 for an index, small-delta or literal opcode)
\* plus run_counter are k; so the finished stream stands for all
\* width * height pixels exactly when run_counter is 0.
C18_PixelAccounting ==
    pc \in {"loop", "done"} =>
        /\ Covered(OpStream, 1) + run_counter = i
        /\ pc = "done" =>
             /\ i = width * height
             /\ i = NPixels
             /\ (Covered(OpStream, 1) = NPixels) = (run_counter = 0)

\* 128 x (10,10,10): 127 pixels in the stream, one left in run_counter
C18_Witness ==
    /\ pc = "done"
    /\ pixVals = <<<<Grey, 128>>>>
    /\ Covered(OpStream, 1) = 127
    /\ run_counter = 1

\* C19: every opcode written starts with a byte in 0..63 (index, the hash of
\* the pixel), 64..127 (small-delta), 192..253 (run) or with 254 (literal);
\* none starts with a byte in 128..191 or with 255; a literal is followed by
\* exactly the three bytes r, g, b.
C19_OpcodeTags ==
    [][InLoop =>
          LET own == IF run_counter > 0 /\ out' # out THEN Tail(Added) ELSE Added
          IN /\ index_hash(rgb) \in 0..63
             /\ run_counter > 0 /\ out' # out => Added[1] \in 192..253
             /\ \/ own = <<>> /\ run_counter' = run_counter + 1
                \/ own = <<index_hash(rgb)>>
                \/ Len(own) = 1 /\ own[1] \in 64..127
                \/ own = <<254, rgb[1], rgb[2], rgb[3]>>]_vars

\* 64 x (0,0,0) then 64 x (10,10,10): run, small-delta, run, literal, run, index
C19_Witness ==
    /\ pc = "done"
    /\ pixVals = <<<<Zero, 64>>, <<Grey, 64>>>>
    /\ OpStream = <<253, 106, 192, 254, 10, 10, 10, 253, 11>>

\* C11: encoding the same image again gives the same bytes, whatever was
\* encoded in between, and every call enters its loop with last = (0,0,0),
\* run_counter = 0, 64 zero slots and an output of the 14 header bytes only.
C11_IndependentCalls ==
    /\ pc = "done" =>
         \A k \in 1..Len(encoded) : encoded[k][1] = file => encoded[k][2] = out
    /\ pc = "loop" /\ i = 0 =>
         /\ last = <<0, 0, 0>>
         /\ run_counter = 0
         /\ \A h \in 0..63 : index[h] = [kind |-> "list", rgb |-> <<0, 0, 0>>]
         /\ Len(out) = 14

\* (11,8,11) encoded, then (12,8,11), (11,8,11), then (11,8,11) again
C11_Witness ==
    /\ pc = "done"
    /\ calls = 3
    /\ Len(encoded) = 2
    /\ file.pixels = <<<<<<11, 8, 11>>, 1>>>>
    /\ encoded[1] = <<file, out>>
    /\ encoded[2][1].pixels = <<<<<<12, 8, 11>>, 1>>, <<<<11, 8, 11>>, 1>>>>
    /\ OpStream = <<254, 11, 8, 11>>

====
